---- MODULE Spec2Model ----
(***************************************************************************)
(* Request handling of the api4 scheme and preference endpoints            *)
(* (api4/scheme.go, api4/preference.go).                                   *)
(*                                                                         *)
(* One request is served at a time by one handler.  A handler is an        *)
(* operator from the request context at entry to the request context at    *)
(* return; the context carries the inputs of the request (parameters,      *)
(* body, session, license, the answers of the App facade), the error slot  *)
(* c.Err, the response writer, the audit record, the audit log and a       *)
(* history of the checks and calls the handler made, in program order.     *)
(*                                                                         *)
(* The password checks of package users (CheckUserPassword, ValidateIAM,   *)
(* isPasswordValid, IsPasswordValidWithSettings) are functions of their    *)
(* arguments and of the answer of the IAM service; pw holds the last call  *)
(* with its arguments and its result.                                      *)
(***************************************************************************)
EXTENDS Integers, Sequences, FiniteSets, TLC

VARIABLES ctx, pw

vars == <<ctx, pw>>

(***************************************************************************)
(* Bounds                                                                  *)
(***************************************************************************)
\* longest preference batch in a request body
MaxPrefs == 2

\* longest of the short passwords (passwords at the maximum length come besides)
MaxPasswordLen == 3

(***************************************************************************)
(* Program constants                                                       *)
(***************************************************************************)
StatusOK == 200
StatusCreated == 201
StatusBadRequest == 400
StatusForbidden == 403
StatusNotFound == 404
StatusInternalServerError == 500
StatusNotImplemented == 501

PermissionSysconsoleWriteUserManagementPermissions == "sysconsole_write_user_management_permissions"
PermissionSysconsoleReadUserManagementPermissions == "sysconsole_read_user_management_permissions"
PermissionSysconsoleReadUserManagementTeams == "sysconsole_read_user_management_teams"
PermissionSysconsoleReadUserManagementChannels == "sysconsole_read_user_management_channels"
PermissionEditOtherUsers == "edit_other_users"
PermissionReadChannel == "read_channel"

SchemeScopeTeam == "team"
SchemeScopeChannel == "channel"
PreferenceCategoryFlaggedPost == "flagged_post"

\* permissions a session may hold (read_channel is held per channel)
Permissions ==
    { PermissionSysconsoleWriteUserManagementPermissions,
      PermissionSysconsoleReadUserManagementPermissions,
      PermissionSysconsoleReadUserManagementTeams,
      PermissionSysconsoleReadUserManagementChannels,
      PermissionEditOtherUsers }

Facades ==
    { "CreateScheme", "GetScheme", "PatchScheme", "DeleteScheme",
      "GetSchemesPage", "GetTeamsForSchemePage", "GetChannelsForSchemePage",
      "GetPreferencesForUser", "GetPreferenceByCategoryForUser",
      "GetPreferenceByCategoryAndNameForUser",
      "UpdatePreferences", "DeletePreferences", "GetSinglePost" }

MutatingFacades ==
    { "CreateScheme", "PatchScheme", "DeleteScheme",
      "UpdatePreferences", "DeletePreferences" }

AuditedHandlers ==
    { "createScheme", "patchScheme", "deleteScheme",
      "updatePreferences", "deletePreferences" }

LicenseGatedHandlers == { "createScheme", "patchScheme", "deleteScheme" }

(***************************************************************************)
(* Errors.  c.Err == nil is the record NoErr; an *AppError carries its id  *)
(* and its HTTP status.  kind is the way the error was produced.           *)
(***************************************************************************)
NoErr == [kind |-> "none", id |-> "", status |-> 0]

NewAppError(kind, id, status) == [kind |-> kind, id |-> id, status |-> status]

\* answers of a facade call: no error, one of two application errors, or a panic
ErrNotFound == NewAppError("Upstream", "app.store.not_found.app_error", StatusNotFound)
ErrInternal == NewAppError("Upstream", "app.store.internal.app_error", StatusInternalServerError)
Panic == NewAppError("panic", "runtime.panic", 0)

FacadeAnswers == { NoErr, ErrNotFound, ErrInternal, Panic }

\* answers of json Encode: written, written with an error returned, or a panic
EncodeAnswers == { "ok", "error", "panic" }

(***************************************************************************)
(* Inputs of a request                                                     *)
(***************************************************************************)
UserIds == { "", "u1", "u2" }
SchemeIds == { "", "s1" }
Categories == { "", "theme" }
PreferenceNames == { "", "n1" }
Scopes == { "", SchemeScopeTeam, SchemeScopeChannel, "bogus" }
Channels == { "ch1", "ch2" }

NoParams == [UserId |-> "", SchemeId |-> "", Category |-> "", PreferenceName |-> "", Scope |-> ""]

Sessions == [UserId : {"u1"}, perms : SUBSET Permissions, channels : SUBSET Channels]

Licenses ==
    { [present |-> FALSE, CustomPermissionsSchemes |-> FALSE],
      [present |-> TRUE, CustomPermissionsSchemes |-> FALSE],
      [present |-> TRUE, CustomPermissionsSchemes |-> TRUE] }

NilScheme == [Id |-> "", Name |-> "", Scope |-> ""]
SubmittedScheme == [Id |-> "", Name |-> "custom", Scope |-> SchemeScopeTeam]

\* the posts of the store: p1 lives in ch1, p2 in ch2, p0 does not exist
PostChannel(name) ==
    CASE name = "p1" -> "ch1"
      [] name = "p2" -> "ch2"
      [] OTHER -> ""

Pref(category, name) == [Category |-> category, Name |-> name]

PrefChoices ==
    { Pref("theme", "n1"),
      Pref(PreferenceCategoryFlaggedPost, "p0"),
      Pref(PreferenceCategoryFlaggedPost, "p1"),
      Pref(PreferenceCategoryFlaggedPost, "p2") }

PrefBatches == UNION { [1..n -> PrefChoices] : n \in 0..MaxPrefs }

\* a request body: parsable or not, and what it parses to
GarbageBody == [ok |-> FALSE, scheme |-> NilScheme, prefs |-> <<>>]
SchemeBody == [ok |-> TRUE, scheme |-> SubmittedScheme, prefs |-> <<>>]
PrefsBody(prefs) == [ok |-> TRUE, scheme |-> NilScheme, prefs |-> prefs]

\* the App facade of a request: every call answers without error, except f1 and f2
AppWith(f1, a1, f2, a2) ==
    [f \in Facades |-> IF f = f1 THEN a1 ELSE IF f = f2 THEN a2 ELSE NoErr]

(***************************************************************************)
(* The request context                                                     *)
(***************************************************************************)
NoAuditRec == [event |-> "", status |-> "", meta |-> <<>>]

NewContext(handler, params, body, session, license, app, scope, encode) ==
    [ handler     |-> handler,
      Params      |-> params,
      Body        |-> body,
      Session     |-> session,
      License     |-> license,
      App         |-> app,
      storedScope |-> scope,         \* Scope of the scheme GetScheme loads
      encode      |-> encode,        \* what json Encode answers
      Err         |-> NoErr,
      w           |-> <<>>,          \* what was written to the ResponseWriter
      auditRec    |-> NoAuditRec,    \* the record MakeAuditRecord returned
      deferred    |-> 0,             \* pending defer c.LogAuditRec(auditRec)
      audits      |-> <<>>,          \* records emitted to the audit log
      saved       |-> <<>>,          \* batches UpdatePreferences stored
      answers     |-> <<>>,          \* what each facade call answered
      legacy      |-> 0,             \* c.LogAudit entries
      warnings    |-> 0,             \* mlog.Warn entries
      panicked    |-> FALSE,
      trace       |-> <<>> ]

\* history: one entry per check, call, error assignment and write, in program order
Ev(c, ev, arg) == [c EXCEPT !.trace = Append(@, [ev |-> ev, arg |-> arg])]

\* c.Err = err
SetErr(c, err) == [Ev(c, "seterr", err.kind) EXCEPT !.Err = err]

\* a panic unwinds the handler: nothing more of its body runs
Unwind(c) == [c EXCEPT !.panicked = TRUE]

(***************************************************************************)
(* web.Context: validation chain, error helpers                            *)
(***************************************************************************)
SetInvalidParam(c, parameter) ==
    SetErr(c, NewAppError("InvalidParameter", parameter, StatusBadRequest))

SetPermissionError(c, permission) ==
    SetErr(c, NewAppError("PermissionDenied", permission, StatusForbidden))

Require(c, field, value) ==
    IF c.Err # NoErr THEN c
    ELSE LET c1 == Ev(c, "require", field) IN
         IF value = "" THEN SetInvalidParam(c1, field) ELSE c1

RequireUserId(c) == Require(c, "user_id", c.Params.UserId)
RequireSchemeId(c) == Require(c, "scheme_id", c.Params.SchemeId)
RequireCategory(c) == Require(c, "category", c.Params.Category)
RequirePreferenceName(c) == Require(c, "preference_name", c.Params.PreferenceName)

(***************************************************************************)
(* Session / permission oracle, license                                    *)
(***************************************************************************)
SessionHasPermissionTo(session, permission) == permission \in session.perms

SessionHasPermissionToUser(session, userId) ==
    userId = session.UserId \/ PermissionEditOtherUsers \in session.perms

SessionHasPermissionToChannel(session, channelId, permission) ==
    channelId \in session.channels

\* only the nil license is refused
LicenseLacksCustomPermissionsSchemes_NilOnly(c) == ~c.License.present

\* c.App.Srv().License() == nil || !*...Features.CustomPermissionsSchemes
LicenseLacksCustomPermissionsSchemes(c) ==
    ~c.License.present \/ ~c.License.CustomPermissionsSchemes

(***************************************************************************)
(* audit.Record                                                            *)
(***************************************************************************)
MakeAuditRecord(c, event) ==
    [Ev(c, "audit.make", event) EXCEPT !.auditRec = [event |-> event, status |-> "fail", meta |-> <<>>]]

\* the defer statement left out
DeferLogAuditRec_Missing(c) == c

\* defer c.LogAuditRec(auditRec)
DeferLogAuditRec(c) == [Ev(c, "audit.defer", "") EXCEPT !.deferred = @ + 1]

\* rec.AddMeta(key, val): the metadata holds one value per key; adding a key
\* again overwrites its value ("// overwrite meta", createScheme)
AddMeta(c, key, val) ==
    LET meta == c.auditRec.meta IN
    [Ev(c, "audit.meta", key) EXCEPT !.auditRec.meta =
        IF \E i \in 1..Len(meta) : meta[i][1] = key
        THEN [i \in 1..Len(meta) |-> IF meta[i][1] = key THEN <<key, val>> ELSE meta[i]]
        ELSE Append(meta, <<key, val>>)]

Success(c) == [Ev(c, "audit.success", "") EXCEPT !.auditRec.status = "success"]

LogAuditRec(c) ==
    [Ev(c, "audit.emit", c.auditRec.status) EXCEPT !.audits = Append(@, c.auditRec)]

LogAudit(c) == [c EXCEPT !.legacy = @ + 1]

\* the deferred calls run when the handler is left, by return or by panic
RECURSIVE RunDeferred(_)
RunDeferred(c) ==
    IF c.deferred = 0 THEN c
    ELSE RunDeferred(LogAuditRec([c EXCEPT !.deferred = @ - 1]))

(***************************************************************************)
(* Response                                                                *)
(***************************************************************************)
Write(c, op, val) ==
    [Ev(c, "write", op) EXCEPT !.w = Append(@, [op |-> op, val |-> val])]

WriteHeader(c, status) == Write(c, "WriteHeader", ToString(status))

\* the encoding error assigned to c.Err instead of being logged
Encode_EscalatesError(c, what) ==
    CASE c.encode = "panic" -> Unwind(Ev(c, "encode.panic", what))
      [] c.encode = "error" ->
           SetErr(Write(c, "Encode", what),
                  NewAppError("Encoding", "api.marshal_error", StatusInternalServerError))
      [] OTHER -> Write(c, "Encode", what)

\* if err := json.NewEncoder(w).Encode(v); err != nil { mlog.Warn(...) }
Encode(c, what) ==
    CASE c.encode = "panic" -> Unwind(Ev(c, "encode.panic", what))
      [] c.encode = "error" -> [Write(c, "Encode", what) EXCEPT !.warnings = @ + 1]
      [] OTHER -> Write(c, "Encode", what)

ReturnStatusOK(c) == Write(c, "ReturnStatusOK", "OK")

(***************************************************************************)
(* App facade                                                              *)
(***************************************************************************)
\* the call c.App.<name>(...) is made and answers err
Call(c, name, err) ==
    [Ev(c, "facade", name) EXCEPT !.answers = Append(@, [name |-> name, err |-> err])]

SchemeFromJson(body) == IF body.ok THEN body.scheme ELSE NilScheme

CreatedScheme(scheme) == [scheme EXCEPT !.Id = "s1"]

SchemePatchFromJson(body) == IF body.ok THEN body.scheme ELSE NilScheme

\* the scheme GetScheme loads
StoredScheme(c) == [Id |-> c.Params.SchemeId, Name |-> "stored", Scope |-> c.storedScope]

PatchedScheme(scheme, patch) == [scheme EXCEPT !.Name = patch.Name]

\* model.PreferencesFromJson: (preferences, err)
PreferencesFromJson(body) == [preferences |-> body.prefs, err |-> ~body.ok]

(***************************************************************************)
(* Handlers of api4/scheme.go                                              *)
(***************************************************************************)
\* the created scheme is not attached to the audit record
createScheme_KeepsSubmittedMeta(c0) ==
    LET scheme == SchemeFromJson(c0.Body)
        c1 == Ev(c0, "parse", "scheme")
    IN
    IF scheme = NilScheme THEN SetInvalidParam(c1, "scheme")
    ELSE
    LET c2 == AddMeta(DeferLogAuditRec(MakeAuditRecord(c1, "createScheme")), "scheme", scheme)
        c3 == Ev(c2, "license", "CustomPermissionsSchemes")
    IN
    IF LicenseLacksCustomPermissionsSchemes(c3)
    THEN SetErr(c3, NewAppError("NotImplemented", "api.scheme.create_scheme.license.error", StatusNotImplemented))
    ELSE
    LET c4 == Ev(c3, "perm", PermissionSysconsoleWriteUserManagementPermissions) IN
    IF ~SessionHasPermissionTo(c4.Session, PermissionSysconsoleWriteUserManagementPermissions)
    THEN SetPermissionError(c4, PermissionSysconsoleWriteUserManagementPermissions)
    ELSE
    LET c5 == Call(c4, "CreateScheme", c4.App["CreateScheme"])
        err == c5.App["CreateScheme"]
    IN
    IF err = Panic THEN Unwind(c5)
    ELSE IF err # NoErr THEN SetErr(c5, err)
    ELSE
    LET c6 == Success(c5) IN
    Encode(WriteHeader(c6, StatusCreated), "scheme")

\* the submitted scheme attached only once the license check has passed
createScheme_MetaAfterLicense(c0) ==
    LET scheme == SchemeFromJson(c0.Body)
        c1 == Ev(c0, "parse", "scheme")
    IN
    IF scheme = NilScheme THEN SetInvalidParam(c1, "scheme")
    ELSE
    LET c2 == DeferLogAuditRec(MakeAuditRecord(c1, "createScheme"))
        c3 == Ev(c2, "license", "CustomPermissionsSchemes")
    IN
    IF LicenseLacksCustomPermissionsSchemes(c3)
    THEN SetErr(c3, NewAppError("NotImplemented", "api.scheme.create_scheme.license.error", StatusNotImplemented))
    ELSE
    LET c4 == Ev(AddMeta(c3, "scheme", scheme), "perm", PermissionSysconsoleWriteUserManagementPermissions) IN
    IF ~SessionHasPermissionTo(c4.Session, PermissionSysconsoleWriteUserManagementPermissions)
    THEN SetPermissionError(c4, PermissionSysconsoleWriteUserManagementPermissions)
    ELSE
    LET c5 == Call(c4, "CreateScheme", c4.App["CreateScheme"])
        err == c5.App["CreateScheme"]
    IN
    IF err = Panic THEN Unwind(c5)
    ELSE IF err # NoErr THEN SetErr(c5, err)
    ELSE
    LET c6 == AddMeta(Success(c5), "scheme", CreatedScheme(scheme)) IN
    Encode(WriteHeader(c6, StatusCreated), "scheme")

createScheme(c0) ==
    LET scheme == SchemeFromJson(c0.Body)
        c1 == Ev(c0, "parse", "scheme")
    IN
    IF scheme = NilScheme THEN SetInvalidParam(c1, "scheme")
    ELSE
    LET c2 == AddMeta(DeferLogAuditRec(MakeAuditRecord(c1, "createScheme")), "scheme", scheme)
        c3 == Ev(c2, "license", "CustomPermissionsSchemes")
    IN
    IF LicenseLacksCustomPermissionsSchemes(c3)
    THEN SetErr(c3, NewAppError("NotImplemented", "api.scheme.create_scheme.license.error", StatusNotImplemented))
    ELSE
    LET c4 == Ev(c3, "perm", PermissionSysconsoleWriteUserManagementPermissions) IN
    IF ~SessionHasPermissionTo(c4.Session, PermissionSysconsoleWriteUserManagementPermissions)
    THEN SetPermissionError(c4, PermissionSysconsoleWriteUserManagementPermissions)
    ELSE
    LET c5 == Call(c4, "CreateScheme", c4.App["CreateScheme"])
        err == c5.App["CreateScheme"]
    IN
    IF err = Panic THEN Unwind(c5)
    ELSE IF err # NoErr THEN SetErr(c5, err)
    ELSE
    LET c6 == AddMeta(Success(c5), "scheme", CreatedScheme(scheme)) IN
    Encode(WriteHeader(c6, StatusCreated), "scheme")

\* the test of c.Err after RequireSchemeId left out
getScheme_NoErrCheck(c0) ==
    LET c1 == RequireSchemeId(c0)
        c2 == Ev(c1, "perm", PermissionSysconsoleReadUserManagementPermissions)
    IN
    IF ~SessionHasPermissionTo(c2.Session, PermissionSysconsoleReadUserManagementPermissions)
    THEN SetPermissionError(c2, PermissionSysconsoleReadUserManagementPermissions)
    ELSE
    LET c3 == Call(c2, "GetScheme", c2.App["GetScheme"])
        err == c3.App["GetScheme"]
    IN
    IF err = Panic THEN Unwind(c3)
    ELSE IF err # NoErr THEN SetErr(c3, err)
    ELSE Encode(c3, "scheme")

getScheme(c0) ==
    LET c1 == RequireSchemeId(c0) IN
    IF c1.Err # NoErr THEN c1
    ELSE
    LET c2 == Ev(c1, "perm", PermissionSysconsoleReadUserManagementPermissions) IN
    IF ~SessionHasPermissionTo(c2.Session, PermissionSysconsoleReadUserManagementPermissions)
    THEN SetPermissionError(c2, PermissionSysconsoleReadUserManagementPermissions)
    ELSE
    LET c3 == Call(c2, "GetScheme", c2.App["GetScheme"])
        err == c3.App["GetScheme"]
    IN
    IF err = Panic THEN Unwind(c3)
    ELSE IF err # NoErr THEN SetErr(c3, err)
    ELSE Encode(c3, "scheme")

\* GetSchemesPage called ahead of the scope validation
getSchemes_CallFirst(c0) ==
    LET c1 == Ev(c0, "perm", PermissionSysconsoleReadUserManagementPermissions) IN
    IF ~SessionHasPermissionTo(c1.Session, PermissionSysconsoleReadUserManagementPermissions)
    THEN SetPermissionError(c1, PermissionSysconsoleReadUserManagementPermissions)
    ELSE
    LET c2 == Call(c1, "GetSchemesPage", c1.App["GetSchemesPage"])
        err == c2.App["GetSchemesPage"]
    IN
    IF err = Panic THEN Unwind(c2)
    ELSE IF err # NoErr THEN SetErr(c2, err)
    ELSE
    LET scope == c2.Params.Scope
        c3 == Ev(c2, "validate", "scope")
    IN
    IF scope # "" /\ scope # SchemeScopeTeam /\ scope # SchemeScopeChannel
    THEN SetInvalidParam(c3, "scope")
    ELSE Write(c3, "Write", "schemes")

getSchemes(c0) ==
    LET c1 == Ev(c0, "perm", PermissionSysconsoleReadUserManagementPermissions) IN
    IF ~SessionHasPermissionTo(c1.Session, PermissionSysconsoleReadUserManagementPermissions)
    THEN SetPermissionError(c1, PermissionSysconsoleReadUserManagementPermissions)
    ELSE
    LET scope == c1.Params.Scope
        c2 == Ev(c1, "validate", "scope")
    IN
    IF scope # "" /\ scope # SchemeScopeTeam /\ scope # SchemeScopeChannel
    THEN SetInvalidParam(c2, "scope")
    ELSE
    LET c3 == Call(c2, "GetSchemesPage", c2.App["GetSchemesPage"])
        err == c3.App["GetSchemesPage"]
    IN
    IF err = Panic THEN Unwind(c3)
    ELSE IF err # NoErr THEN SetErr(c3, err)
    ELSE Write(c3, "Write", "schemes")

\* the permission check ahead of RequireSchemeId
getTeamsForScheme_PermissionFirst(c0) ==
    LET c1 == Ev(c0, "perm", PermissionSysconsoleReadUserManagementTeams) IN
    IF ~SessionHasPermissionTo(c1.Session, PermissionSysconsoleReadUserManagementTeams)
    THEN SetPermissionError(c1, PermissionSysconsoleReadUserManagementTeams)
    ELSE
    LET c2 == RequireSchemeId(c1) IN
    IF c2.Err # NoErr THEN c2
    ELSE
    LET c3 == Call(c2, "GetScheme", c2.App["GetScheme"])
        err == c3.App["GetScheme"]
        scheme == StoredScheme(c3)
    IN
    IF err = Panic THEN Unwind(c3)
    ELSE IF err # NoErr THEN SetErr(c3, err)
    ELSE
    LET c4 == Ev(c3, "check", "scheme.Scope") IN
    IF scheme.Scope # SchemeScopeTeam
    THEN SetErr(c4, NewAppError("BadRequest", "api.scheme.get_teams_for_scheme.scope.error", StatusBadRequest))
    ELSE
    LET c5 == Call(c4, "GetTeamsForSchemePage", c4.App["GetTeamsForSchemePage"])
        err2 == c5.App["GetTeamsForSchemePage"]
    IN
    IF err2 = Panic THEN Unwind(c5)
    ELSE IF err2 # NoErr THEN SetErr(c5, err2)
    ELSE Write(c5, "Write", "teams")

getTeamsForScheme(c0) ==
    LET c1 == RequireSchemeId(c0) IN
    IF c1.Err # NoErr THEN c1
    ELSE
    LET c2 == Ev(c1, "perm", PermissionSysconsoleReadUserManagementTeams) IN
    IF ~SessionHasPermissionTo(c2.Session, PermissionSysconsoleReadUserManagementTeams)
    THEN SetPermissionError(c2, PermissionSysconsoleReadUserManagementTeams)
    ELSE
    LET c3 == Call(c2, "GetScheme", c2.App["GetScheme"])
        err == c3.App["GetScheme"]
        scheme == StoredScheme(c3)
    IN
    IF err = Panic THEN Unwind(c3)
    ELSE IF err # NoErr THEN SetErr(c3, err)
    ELSE
    LET c4 == Ev(c3, "check", "scheme.Scope") IN
    IF scheme.Scope # SchemeScopeTeam
    THEN SetErr(c4, NewAppError("BadRequest", "api.scheme.get_teams_for_scheme.scope.error", StatusBadRequest))
    ELSE
    LET c5 == Call(c4, "GetTeamsForSchemePage", c4.App["GetTeamsForSchemePage"])
        err2 == c5.App["GetTeamsForSchemePage"]
    IN
    IF err2 = Panic THEN Unwind(c5)
    ELSE IF err2 # NoErr THEN SetErr(c5, err2)
    ELSE Write(c5, "Write", "teams")

\* the scope compared with the team scope, as in getTeamsForScheme
getChannelsForScheme_ChecksTeamScope(c0) ==
    LET c1 == RequireSchemeId(c0) IN
    IF c1.Err # NoErr THEN c1
    ELSE
    LET c2 == Ev(c1, "perm", PermissionSysconsoleReadUserManagementChannels) IN
    IF ~SessionHasPermissionTo(c2.Session, PermissionSysconsoleReadUserManagementChannels)
    THEN SetPermissionError(c2, PermissionSysconsoleReadUserManagementChannels)
    ELSE
    LET c3 == Call(c2, "GetScheme", c2.App["GetScheme"])
        err == c3.App["GetScheme"]
        scheme == StoredScheme(c3)
    IN
    IF err = Panic THEN Unwind(c3)
    ELSE IF err # NoErr THEN SetErr(c3, err)
    ELSE
    LET c4 == Ev(c3, "check", "scheme.Scope") IN
    IF scheme.Scope # SchemeScopeTeam
    THEN SetErr(c4, NewAppError("BadRequest", "api.scheme.get_channels_for_scheme.scope.error", StatusBadRequest))
    ELSE
    LET c5 == Call(c4, "GetChannelsForSchemePage", c4.App["GetChannelsForSchemePage"])
        err2 == c5.App["GetChannelsForSchemePage"]
    IN
    IF err2 = Panic THEN Unwind(c5)
    ELSE IF err2 # NoErr THEN SetErr(c5, err2)
    ELSE Encode(c5, "channels")

getChannelsForScheme(c0) ==
    LET c1 == RequireSchemeId(c0) IN
    IF c1.Err # NoErr THEN c1
    ELSE
    LET c2 == Ev(c1, "perm", PermissionSysconsoleReadUserManagementChannels) IN
    IF ~SessionHasPermissionTo(c2.Session, PermissionSysconsoleReadUserManagementChannels)
    THEN SetPermissionError(c2, PermissionSysconsoleReadUserManagementChannels)
    ELSE
    LET c3 == Call(c2, "GetScheme", c2.App["GetScheme"])
        err == c3.App["GetScheme"]
        scheme == StoredScheme(c3)
    IN
    IF err = Panic THEN Unwind(c3)
    ELSE IF err # NoErr THEN SetErr(c3, err)
    ELSE
    LET c4 == Ev(c3, "check", "scheme.Scope") IN
    IF scheme.Scope # SchemeScopeChannel
    THEN SetErr(c4, NewAppError("BadRequest", "api.scheme.get_channels_for_scheme.scope.error", StatusBadRequest))
    ELSE
    LET c5 == Call(c4, "GetChannelsForSchemePage", c4.App["GetChannelsForSchemePage"])
        err2 == c5.App["GetChannelsForSchemePage"]
    IN
    IF err2 = Panic THEN Unwind(c5)
    ELSE IF err2 # NoErr THEN SetErr(c5, err2)
    ELSE Encode(c5, "channels")

patchScheme(c0) ==
    LET c1 == RequireSchemeId(c0) IN
    IF c1.Err # NoErr THEN c1
    ELSE
    LET patch == SchemePatchFromJson(c1.Body)
        c2 == Ev(c1, "parse", "scheme")
    IN
    IF patch = NilScheme THEN SetInvalidParam(c2, "scheme")
    ELSE
    LET c3 == DeferLogAuditRec(MakeAuditRecord(c2, "patchScheme"))
        c4 == Ev(c3, "license", "CustomPermissionsSchemes")
    IN
    IF LicenseLacksCustomPermissionsSchemes(c4)
    THEN SetErr(c4, NewAppError("NotImplemented", "api.scheme.patch_scheme.license.error", StatusNotImplemented))
    ELSE
    LET c5 == Call(c4, "GetScheme", c4.App["GetScheme"])
        err == c5.App["GetScheme"]
        scheme == StoredScheme(c5)
    IN
    IF err = Panic THEN Unwind(c5)
    ELSE IF err # NoErr THEN SetErr(c5, err)
    ELSE
    LET c6 == Ev(AddMeta(c5, "scheme", scheme), "perm", PermissionSysconsoleWriteUserManagementPermissions) IN
    IF ~SessionHasPermissionTo(c6.Session, PermissionSysconsoleWriteUserManagementPermissions)
    THEN SetPermissionError(c6, PermissionSysconsoleWriteUserManagementPermissions)
    ELSE
    LET c7 == Call(c6, "PatchScheme", c6.App["PatchScheme"])
        err2 == c7.App["PatchScheme"]
    IN
    IF err2 = Panic THEN Unwind(c7)
    ELSE IF err2 # NoErr THEN SetErr(c7, err2)
    ELSE
    LET c8 == LogAudit(Success(AddMeta(c7, "patch", PatchedScheme(scheme, patch)))) IN
    Encode(c8, "scheme")

\* the permission check ahead of the license check
deleteScheme_PermissionFirst(c0) ==
    LET c1 == RequireSchemeId(c0) IN
    IF c1.Err # NoErr THEN c1
    ELSE
    LET c2 == DeferLogAuditRec(MakeAuditRecord(c1, "deleteScheme"))
        c3 == Ev(c2, "perm", PermissionSysconsoleWriteUserManagementPermissions)
    IN
    IF ~SessionHasPermissionTo(c3.Session, PermissionSysconsoleWriteUserManagementPermissions)
    THEN SetPermissionError(c3, PermissionSysconsoleWriteUserManagementPermissions)
    ELSE
    LET c4 == Ev(c3, "license", "CustomPermissionsSchemes") IN
    IF LicenseLacksCustomPermissionsSchemes(c4)
    THEN SetErr(c4, NewAppError("NotImplemented", "api.scheme.delete_scheme.license.error", StatusNotImplemented))
    ELSE
    LET c5 == Call(c4, "DeleteScheme", c4.App["DeleteScheme"])
        err == c5.App["DeleteScheme"]
    IN
    IF err = Panic THEN Unwind(c5)
    ELSE IF err # NoErr THEN SetErr(c5, err)
    ELSE ReturnStatusOK(AddMeta(Success(c5), "scheme", StoredScheme(c5)))

\* auditRec.Success() called ahead of DeleteScheme
deleteScheme_SuccessBeforeCall(c0) ==
    LET c1 == RequireSchemeId(c0) IN
    IF c1.Err # NoErr THEN c1
    ELSE
    LET c2 == DeferLogAuditRec(MakeAuditRecord(c1, "deleteScheme"))
        c3 == Ev(c2, "license", "CustomPermissionsSchemes")
    IN
    IF LicenseLacksCustomPermissionsSchemes(c3)
    THEN SetErr(c3, NewAppError("NotImplemented", "api.scheme.delete_scheme.license.error", StatusNotImplemented))
    ELSE
    LET c4 == Ev(c3, "perm", PermissionSysconsoleWriteUserManagementPermissions) IN
    IF ~SessionHasPermissionTo(c4.Session, PermissionSysconsoleWriteUserManagementPermissions)
    THEN SetPermissionError(c4, PermissionSysconsoleWriteUserManagementPermissions)
    ELSE
    LET c5 == Call(Success(c4), "DeleteScheme", c4.App["DeleteScheme"])
        err == c5.App["DeleteScheme"]
    IN
    IF err = Panic THEN Unwind(c5)
    ELSE IF err # NoErr THEN SetErr(c5, err)
    ELSE ReturnStatusOK(AddMeta(c5, "scheme", StoredScheme(c5)))

deleteScheme(c0) ==
    LET c1 == RequireSchemeId(c0) IN
    IF c1.Err # NoErr THEN c1
    ELSE
    LET c2 == DeferLogAuditRec(MakeAuditRecord(c1, "deleteScheme"))
        c3 == Ev(c2, "license", "CustomPermissionsSchemes")
    IN
    IF LicenseLacksCustomPermissionsSchemes(c3)
    THEN SetErr(c3, NewAppError("NotImplemented", "api.scheme.delete_scheme.license.error", StatusNotImplemented))
    ELSE
    LET c4 == Ev(c3, "perm", PermissionSysconsoleWriteUserManagementPermissions) IN
    IF ~SessionHasPermissionTo(c4.Session, PermissionSysconsoleWriteUserManagementPermissions)
    THEN SetPermissionError(c4, PermissionSysconsoleWriteUserManagementPermissions)
    ELSE
    LET c5 == Call(c4, "DeleteScheme", c4.App["DeleteScheme"])
        err == c5.App["DeleteScheme"]
    IN
    IF err = Panic THEN Unwind(c5)
    ELSE IF err # NoErr THEN SetErr(c5, err)
    ELSE ReturnStatusOK(AddMeta(Success(c5), "scheme", StoredScheme(c5)))

(***************************************************************************)
(* Handlers of api4/preference.go                                          *)
(***************************************************************************)
\* the facade error wrapped in an error of the handler
getPreferences_WrapsError(c0) ==
    LET c1 == RequireUserId(c0) IN
    IF c1.Err # NoErr THEN c1
    ELSE
    LET c2 == Ev(c1, "permUser", c1.Params.UserId) IN
    IF ~SessionHasPermissionToUser(c2.Session, c2.Params.UserId)
    THEN SetPermissionError(c2, PermissionEditOtherUsers)
    ELSE
    LET c3 == Call(c2, "GetPreferencesForUser", c2.App["GetPreferencesForUser"])
        err == c3.App["GetPreferencesForUser"]
    IN
    IF err = Panic THEN Unwind(c3)
    ELSE IF err # NoErr
    THEN SetErr(c3, NewAppError("Upstream", "api.preference.get_preferences.app_error", StatusInternalServerError))
    ELSE Encode(c3, "preferences")

\* an audit record made and deferred as in updatePreferences
getPreferences_Audited(c0) ==
    LET c1 == RequireUserId(c0) IN
    IF c1.Err # NoErr THEN c1
    ELSE
    LET c2 == Ev(DeferLogAuditRec(MakeAuditRecord(c1, "getPreferences")), "permUser", c1.Params.UserId) IN
    IF ~SessionHasPermissionToUser(c2.Session, c2.Params.UserId)
    THEN SetPermissionError(c2, PermissionEditOtherUsers)
    ELSE
    LET c3 == Call(c2, "GetPreferencesForUser", c2.App["GetPreferencesForUser"])
        err == c3.App["GetPreferencesForUser"]
    IN
    IF err = Panic THEN Unwind(c3)
    ELSE IF err # NoErr THEN SetErr(c3, err)
    ELSE Encode(c3, "preferences")

getPreferences(c0) ==
    LET c1 == RequireUserId(c0) IN
    IF c1.Err # NoErr THEN c1
    ELSE
    LET c2 == Ev(c1, "permUser", c1.Params.UserId) IN
    IF ~SessionHasPermissionToUser(c2.Session, c2.Params.UserId)
    THEN SetPermissionError(c2, PermissionEditOtherUsers)
    ELSE
    LET c3 == Call(c2, "GetPreferencesForUser", c2.App["GetPreferencesForUser"])
        err == c3.App["GetPreferencesForUser"]
    IN
    IF err = Panic THEN Unwind(c3)
    ELSE IF err # NoErr THEN SetErr(c3, err)
    ELSE Encode(c3, "preferences")

\* the test of c.Err after the Require chain left out
getPreferencesByCategory_NoErrCheck(c0) ==
    LET c1 == RequireCategory(RequireUserId(c0))
        c2 == Ev(c1, "permUser", c1.Params.UserId)
    IN
    IF ~SessionHasPermissionToUser(c2.Session, c2.Params.UserId)
    THEN SetPermissionError(c2, PermissionEditOtherUsers)
    ELSE
    LET c3 == Call(c2, "GetPreferenceByCategoryForUser", c2.App["GetPreferenceByCategoryForUser"])
        err == c3.App["GetPreferenceByCategoryForUser"]
    IN
    IF err = Panic THEN Unwind(c3)
    ELSE IF err # NoErr THEN SetErr(c3, err)
    ELSE Encode(c3, "preferences")

\* the chain declared as c.RequireCategory().RequireUserId()
getPreferencesByCategory_CategoryFirst(c0) ==
    LET c1 == RequireUserId(RequireCategory(c0)) IN
    IF c1.Err # NoErr THEN c1
    ELSE
    LET c2 == Ev(c1, "permUser", c1.Params.UserId) IN
    IF ~SessionHasPermissionToUser(c2.Session, c2.Params.UserId)
    THEN SetPermissionError(c2, PermissionEditOtherUsers)
    ELSE
    LET c3 == Call(c2, "GetPreferenceByCategoryForUser", c2.App["GetPreferenceByCategoryForUser"])
        err == c3.App["GetPreferenceByCategoryForUser"]
    IN
    IF err = Panic THEN Unwind(c3)
    ELSE IF err # NoErr THEN SetErr(c3, err)
    ELSE Encode(c3, "preferences")

getPreferencesByCategory(c0) ==
    LET c1 == RequireCategory(RequireUserId(c0)) IN
    IF c1.Err # NoErr THEN c1
    ELSE
    LET c2 == Ev(c1, "permUser", c1.Params.UserId) IN
    IF ~SessionHasPermissionToUser(c2.Session, c2.Params.UserId)
    THEN SetPermissionError(c2, PermissionEditOtherUsers)
    ELSE
    LET c3 == Call(c2, "GetPreferenceByCategoryForUser", c2.App["GetPreferenceByCategoryForUser"])
        err == c3.App["GetPreferenceByCategoryForUser"]
    IN
    IF err = Panic THEN Unwind(c3)
    ELSE IF err # NoErr THEN SetErr(c3, err)
    ELSE Encode(c3, "preferences")

getPreferenceByCategoryAndName(c0) ==
    LET c1 == RequirePreferenceName(RequireCategory(RequireUserId(c0))) IN
    IF c1.Err # NoErr THEN c1
    ELSE
    LET c2 == Ev(c1, "permUser", c1.Params.UserId) IN
    IF ~SessionHasPermissionToUser(c2.Session, c2.Params.UserId)
    THEN SetPermissionError(c2, PermissionEditOtherUsers)
    ELSE
    LET c3 == Call(c2, "GetPreferenceByCategoryAndNameForUser", c2.App["GetPreferenceByCategoryAndNameForUser"])
        err == c3.App["GetPreferenceByCategoryAndNameForUser"]
    IN
    IF err = Panic THEN Unwind(c3)
    ELSE IF err # NoErr THEN SetErr(c3, err)
    ELSE Encode(c3, "preference")

\* c.App.GetSinglePost(name): the error the store answers with, if any;
\* with a healthy store, not-found for a post the store does not have
GetSinglePostErr(c, name) ==
    IF c.App["GetSinglePost"] # NoErr THEN c.App["GetSinglePost"]
    ELSE IF PostChannel(name) = "" THEN ErrNotFound
    ELSE NoErr

\* for _, pref := range preferences { ... }, from index i on;
\* sanitized is sanitizedPreferences so far
\* an entry the session may not read is skipped and the rest of the batch stored
RECURSIVE updatePreferencesLoop_SkipsDenied(_, _, _, _)
updatePreferencesLoop_SkipsDenied(c, preferences, i, sanitized) ==
    IF i > Len(preferences)
    THEN
        LET c1 == Call(c, "UpdatePreferences", c.App["UpdatePreferences"])
            err == c1.App["UpdatePreferences"]
        IN
        IF err = Panic THEN Unwind(c1)
        ELSE IF err # NoErr THEN SetErr(c1, err)
        ELSE ReturnStatusOK(Success([c1 EXCEPT !.saved = Append(@, sanitized)]))
    ELSE
        LET pref == preferences[i] IN
        IF pref.Category = PreferenceCategoryFlaggedPost
        THEN
            LET c1 == Call(c, "GetSinglePost", GetSinglePostErr(c, pref.Name))
                err == GetSinglePostErr(c1, pref.Name)
            IN
            IF err = Panic THEN Unwind(c1)
            ELSE IF err # NoErr THEN SetInvalidParam(c1, "preference.name")
            ELSE
            LET c2 == Ev(c1, "permChannel", PostChannel(pref.Name)) IN
            IF ~SessionHasPermissionToChannel(c2.Session, PostChannel(pref.Name), PermissionReadChannel)
            THEN updatePreferencesLoop_SkipsDenied(c2, preferences, i + 1, sanitized)
            ELSE updatePreferencesLoop_SkipsDenied(c2, preferences, i + 1, Append(sanitized, pref))
        ELSE updatePreferencesLoop_SkipsDenied(c, preferences, i + 1, Append(sanitized, pref))

RECURSIVE updatePreferencesLoop(_, _, _, _)
updatePreferencesLoop(c, preferences, i, sanitized) ==
    IF i > Len(preferences)
    THEN
        LET c1 == Call(c, "UpdatePreferences", c.App["UpdatePreferences"])
            err == c1.App["UpdatePreferences"]
        IN
        IF err = Panic THEN Unwind(c1)
        ELSE IF err # NoErr THEN SetErr(c1, err)
        ELSE ReturnStatusOK(Success([c1 EXCEPT !.saved = Append(@, sanitized)]))
    ELSE
        LET pref == preferences[i] IN
        IF pref.Category = PreferenceCategoryFlaggedPost
        THEN
            LET c1 == Call(c, "GetSinglePost", GetSinglePostErr(c, pref.Name))
                err == GetSinglePostErr(c1, pref.Name)
            IN
            IF err = Panic THEN Unwind(c1)
            ELSE IF err # NoErr THEN SetInvalidParam(c1, "preference.name")
            ELSE
            LET c2 == Ev(c1, "permChannel", PostChannel(pref.Name)) IN
            IF ~SessionHasPermissionToChannel(c2.Session, PostChannel(pref.Name), PermissionReadChannel)
            THEN SetPermissionError(c2, PermissionReadChannel)
            ELSE updatePreferencesLoop(c2, preferences, i + 1, Append(sanitized, pref))
        ELSE updatePreferencesLoop(c, preferences, i + 1, Append(sanitized, pref))

updatePreferences(c0) ==
    LET c1 == RequireUserId(c0) IN
    IF c1.Err # NoErr THEN c1
    ELSE
    LET c2 == DeferLogAuditRec(MakeAuditRecord(c1, "updatePreferences"))
        c3 == Ev(c2, "permUser", c2.Params.UserId)
    IN
    IF ~SessionHasPermissionToUser(c3.Session, c3.Params.UserId)
    THEN SetPermissionError(c3, PermissionEditOtherUsers)
    ELSE
    LET parsed == PreferencesFromJson(c3.Body)
        c4 == Ev(c3, "parse", "preferences")
    IN
    IF parsed.err THEN SetInvalidParam(c4, "preferences")
    ELSE updatePreferencesLoop(c4, parsed.preferences, 1, <<>>)

\* the return after SetPermissionError left out
deletePreferences_NoReturn(c0) ==
    LET c1 == RequireUserId(c0) IN
    IF c1.Err # NoErr THEN c1
    ELSE
    LET c2 == DeferLogAuditRec(MakeAuditRecord(c1, "deletePreferences"))
        c3 == Ev(c2, "permUser", c2.Params.UserId)
        c3b == IF ~SessionHasPermissionToUser(c3.Session, c3.Params.UserId)
               THEN SetPermissionError(c3, PermissionEditOtherUsers)
               ELSE c3
        parsed == PreferencesFromJson(c3b.Body)
        c4 == Ev(c3b, "parse", "preferences")
    IN
    IF parsed.err THEN SetInvalidParam(c4, "preferences")
    ELSE
    LET c5 == Call(c4, "DeletePreferences", c4.App["DeletePreferences"])
        err == c5.App["DeletePreferences"]
    IN
    IF err = Panic THEN Unwind(c5)
    ELSE IF err # NoErr THEN SetErr(c5, err)
    ELSE ReturnStatusOK(Success(c5))

\* LogAuditRec called before each return instead of being deferred
deletePreferences_EmitsBeforeReturn(c0) ==
    LET c1 == RequireUserId(c0) IN
    IF c1.Err # NoErr THEN c1
    ELSE
    LET c2 == MakeAuditRecord(c1, "deletePreferences")
        c3 == Ev(c2, "permUser", c2.Params.UserId)
    IN
    IF ~SessionHasPermissionToUser(c3.Session, c3.Params.UserId)
    THEN LogAuditRec(SetPermissionError(c3, PermissionEditOtherUsers))
    ELSE
    LET parsed == PreferencesFromJson(c3.Body)
        c4 == Ev(c3, "parse", "preferences")
    IN
    IF parsed.err THEN LogAuditRec(SetInvalidParam(c4, "preferences"))
    ELSE
    LET c5 == Call(c4, "DeletePreferences", c4.App["DeletePreferences"])
        err == c5.App["DeletePreferences"]
    IN
    IF err = Panic THEN Unwind(c5)
    ELSE IF err # NoErr THEN LogAuditRec(SetErr(c5, err))
    ELSE LogAuditRec(ReturnStatusOK(Success(c5)))

deletePreferences(c0) ==
    LET c1 == RequireUserId(c0) IN
    IF c1.Err # NoErr THEN c1
    ELSE
    LET c2 == DeferLogAuditRec(MakeAuditRecord(c1, "deletePreferences"))
        c3 == Ev(c2, "permUser", c2.Params.UserId)
    IN
    IF ~SessionHasPermissionToUser(c3.Session, c3.Params.UserId)
    THEN SetPermissionError(c3, PermissionEditOtherUsers)
    ELSE
    LET parsed == PreferencesFromJson(c3.Body)
        c4 == Ev(c3, "parse", "preferences")
    IN
    IF parsed.err THEN SetInvalidParam(c4, "preferences")
    ELSE
    LET c5 == Call(c4, "DeletePreferences", c4.App["DeletePreferences"])
        err == c5.App["DeletePreferences"]
    IN
    IF err = Panic THEN Unwind(c5)
    ELSE IF err # NoErr THEN SetErr(c5, err)
    ELSE ReturnStatusOK(Success(c5))

(***************************************************************************)
(* Serving a request: the handler body, then its deferred calls            *)
(***************************************************************************)
Dispatch(c) ==
    CASE c.handler = "createScheme" -> createScheme(c)
      [] c.handler = "getScheme" -> getScheme(c)
      [] c.handler = "getSchemes" -> getSchemes(c)
      [] c.handler = "getTeamsForScheme" -> getTeamsForScheme(c)
      [] c.handler = "getChannelsForScheme" -> getChannelsForScheme(c)
      [] c.handler = "patchScheme" -> patchScheme(c)
      [] c.handler = "deleteScheme" -> deleteScheme(c)
      [] c.handler = "getPreferences" -> getPreferences(c)
      [] c.handler = "getPreferencesByCategory" -> getPreferencesByCategory(c)
      [] c.handler = "getPreferenceByCategoryAndName" -> getPreferenceByCategoryAndName(c)
      [] c.handler = "updatePreferences" -> updatePreferences(c)
      [] c.handler = "deletePreferences" -> deletePreferences(c)
      [] OTHER -> c

Serve(c) == RunDeferred(Dispatch(c))

(***************************************************************************)
(* Package users: password checks                                          *)
(***************************************************************************)
PasswordMaximumLength == 72

\* the characters passwords are made of here, one or two of each class and
\* one that is in no class
LowercaseLetters == { "a", "b" }
UppercaseLetters == { "Z" }
NUMBERS == { "7" }
SYMBOLS == { "#" }
Alphabet == LowercaseLetters \cup UppercaseLetters \cup NUMBERS \cup SYMBOLS \cup { "{" }

\* a password is known by its length in bytes and the characters it contains
PasswordLengths == 0..MaxPasswordLen \cup { PasswordMaximumLength, PasswordMaximumLength + 1 }

Passwords ==
    { p \in [len : PasswordLengths, chars : SUBSET Alphabet] :
        /\ Cardinality(p.chars) <= p.len
        /\ p.len > 0 => p.chars # {} }

\* len(password)
ByteLen(password) == password.len

\* strings.ContainsAny(password, chars)
ContainsAny(password, chars) == password.chars \cap chars # {}

\* model.PasswordSettings
PasswordSettings ==
    [ MinimumLength : {2, 5}, Lowercase : BOOLEAN, Uppercase : BOOLEAN,
      Number : BOOLEAN, Symbol : BOOLEAN ]

\* us.config(): ServiceSettings.EnableDeveloper and PasswordSettings
Configs == [ EnableDeveloper : BOOLEAN, PasswordSettings : PasswordSettings ]

\* model.User: the user name and the stored password hash
Users == [ Username : {"alice", "bob"}, Password : {"", "$2a$10$hashA", "$2a$10$hashB"} ]

\* what http.Post to the IAM endpoint answers: a transport error, or a response with a status
IAMAnswers ==
    { [err |-> TRUE, StatusCode |-> 0] } \cup
    { [err |-> FALSE, StatusCode |-> code] : code \in {200, 201, 204, 302, 401, 403, 500} }

\* a nil error, and the error NewErrInvalidPassword(id) returns
NilError == [isErr |-> FALSE, id |-> ""]
NewErrInvalidPassword(id) == [isErr |-> TRUE, id |-> id]

\* any response without transport error is accepted
ValidateIAM_IgnoresStatus(username, password, post) ==
    IF post.err THEN FALSE ELSE TRUE

ValidateIAM(username, password, post) ==
    IF post.err THEN FALSE
    ELSE IF post.StatusCode = 200 THEN TRUE
    ELSE FALSE

CheckUserPassword(user, password, post) ==
    IF ValidateIAM(user.Username, password, post) # TRUE
    THEN NewErrInvalidPassword("")
    ELSE NilError

\* the error id names only the classes the password lacks
IsPasswordValidWithSettings_NamesFailedClasses(password, settings) ==
    LET tooShortOrLong ==
            ByteLen(password) < settings.MinimumLength \/ ByteLen(password) > PasswordMaximumLength
        noLower == settings.Lowercase /\ ~ContainsAny(password, LowercaseLetters)
        noUpper == settings.Uppercase /\ ~ContainsAny(password, UppercaseLetters)
        noNumber == settings.Number /\ ~ContainsAny(password, NUMBERS)
        noSymbol == settings.Symbol /\ ~ContainsAny(password, SYMBOLS)
        id == "model.user.is_valid.pwd"
                \o (IF noLower THEN "_lowercase" ELSE "")
                \o (IF noUpper THEN "_uppercase" ELSE "")
                \o (IF noNumber THEN "_number" ELSE "")
                \o (IF noSymbol THEN "_symbol" ELSE "")
    IN
    IF tooShortOrLong \/ noLower \/ noUpper \/ noNumber \/ noSymbol
    THEN NewErrInvalidPassword(id \o ".app_error")
    ELSE NilError

IsPasswordValidWithSettings(password, settings) ==
    LET id0 == "model.user.is_valid.pwd"
        isError0 ==
            ByteLen(password) < settings.MinimumLength \/ ByteLen(password) > PasswordMaximumLength
        isError1 == isError0 \/ (settings.Lowercase /\ ~ContainsAny(password, LowercaseLetters))
        id1 == IF settings.Lowercase THEN id0 \o "_lowercase" ELSE id0
        isError2 == isError1 \/ (settings.Uppercase /\ ~ContainsAny(password, UppercaseLetters))
        id2 == IF settings.Uppercase THEN id1 \o "_uppercase" ELSE id1
        isError3 == isError2 \/ (settings.Number /\ ~ContainsAny(password, NUMBERS))
        id3 == IF settings.Number THEN id2 \o "_number" ELSE id2
        isError4 == isError3 \/ (settings.Symbol /\ ~ContainsAny(password, SYMBOLS))
        id4 == IF settings.Symbol THEN id3 \o "_symbol" ELSE id3
    IN
    IF isError4 THEN NewErrInvalidPassword(id4 \o ".app_error") ELSE NilError

isPasswordValid(config, password) ==
    IF config.EnableDeveloper THEN NilError
    ELSE IsPasswordValidWithSettings(password, config.PasswordSettings)

\* no call of the package has been made
NoCall ==
    [ op       |-> "none",
      user     |-> [Username |-> "", Password |-> ""],
      password |-> [len |-> 0, chars |-> {}],
      post     |-> [err |-> FALSE, StatusCode |-> 0],
      config   |-> [EnableDeveloper |-> FALSE,
                    PasswordSettings |-> [MinimumLength |-> 5, Lowercase |-> FALSE, Uppercase |-> FALSE,
                                          Number |-> FALSE, Symbol |-> FALSE]],
      result   |-> NilError ]

Idle ==
    NewContext("none", NoParams, GarbageBody,
               [UserId |-> "u1", perms |-> {}, channels |-> {}],
               [present |-> FALSE, CustomPermissionsSchemes |-> FALSE],
               AppWith("", NoErr, "", NoErr), "", "ok")

Init ==
    /\ ctx = Idle
    /\ pw = NoCall

\* the response is sent and the server waits for the next request
Reply ==
    /\ ctx.handler # "none"
    /\ ctx' = Idle
    /\ UNCHANGED pw

\* sessions that differ in what matters to the scheme / preference endpoints
SchemeSessions == { s \in Sessions : s.channels = {} }
PreferenceSessions == { s \in Sessions : s.perms \subseteq {PermissionEditOtherUsers} }

SchemeParams(id) == [NoParams EXCEPT !.SchemeId = id]
PreferenceParams(u, cat, name) ==
    [NoParams EXCEPT !.UserId = u, !.Category = cat, !.PreferenceName = name]

CreateSchemeRequest ==
    /\ ctx = Idle
    /\ UNCHANGED pw
    /\ \E body \in {GarbageBody, SchemeBody}, session \in SchemeSessions, license \in Licenses,
          a \in FacadeAnswers, enc \in EncodeAnswers :
            ctx' = Serve(NewContext("createScheme", NoParams, body, session, license,
                                    AppWith("CreateScheme", a, "", NoErr), "", enc))

GetSchemeRequest ==
    /\ ctx = Idle
    /\ UNCHANGED pw
    /\ \E id \in SchemeIds, session \in SchemeSessions, license \in Licenses,
          a \in FacadeAnswers, enc \in EncodeAnswers :
            ctx' = Serve(NewContext("getScheme", SchemeParams(id), GarbageBody, session, license,
                                    AppWith("GetScheme", a, "", NoErr), SchemeScopeTeam, enc))

GetSchemesRequest ==
    /\ ctx = Idle
    /\ UNCHANGED pw
    /\ \E scope \in Scopes, session \in SchemeSessions, license \in Licenses, a \in FacadeAnswers :
            ctx' = Serve(NewContext("getSchemes", [NoParams EXCEPT !.Scope = scope], GarbageBody,
                                    session, license,
                                    AppWith("GetSchemesPage", a, "", NoErr), "", "ok"))

GetTeamsForSchemeRequest ==
    /\ ctx = Idle
    /\ UNCHANGED pw
    /\ \E id \in SchemeIds, session \in SchemeSessions, a1 \in FacadeAnswers, a2 \in FacadeAnswers,
          scope \in {SchemeScopeTeam, SchemeScopeChannel} :
            ctx' = Serve(NewContext("getTeamsForScheme", SchemeParams(id), GarbageBody, session,
                                    [present |-> TRUE, CustomPermissionsSchemes |-> TRUE],
                                    AppWith("GetScheme", a1, "GetTeamsForSchemePage", a2), scope, "ok"))

GetChannelsForSchemeRequest ==
    /\ ctx = Idle
    /\ UNCHANGED pw
    /\ \E id \in SchemeIds, session \in SchemeSessions, a1 \in FacadeAnswers, a2 \in FacadeAnswers,
          scope \in {SchemeScopeTeam, SchemeScopeChannel}, enc \in EncodeAnswers :
            ctx' = Serve(NewContext("getChannelsForScheme", SchemeParams(id), GarbageBody, session,
                                    [present |-> TRUE, CustomPermissionsSchemes |-> TRUE],
                                    AppWith("GetScheme", a1, "GetChannelsForSchemePage", a2), scope, enc))

PatchSchemeRequest ==
    /\ ctx = Idle
    /\ UNCHANGED pw
    /\ \E id \in SchemeIds, body \in {GarbageBody, SchemeBody}, session \in SchemeSessions,
          license \in Licenses, a1 \in FacadeAnswers, a2 \in FacadeAnswers, enc \in EncodeAnswers :
            ctx' = Serve(NewContext("patchScheme", SchemeParams(id), body, session, license,
                                    AppWith("GetScheme", a1, "PatchScheme", a2), SchemeScopeTeam, enc))

DeleteSchemeRequest ==
    /\ ctx = Idle
    /\ UNCHANGED pw
    /\ \E id \in SchemeIds, session \in SchemeSessions, license \in Licenses, a \in FacadeAnswers :
            ctx' = Serve(NewContext("deleteScheme", SchemeParams(id), GarbageBody, session, license,
                                    AppWith("DeleteScheme", a, "", NoErr), SchemeScopeTeam, "ok"))

GetPreferencesRequest ==
    /\ ctx = Idle
    /\ UNCHANGED pw
    /\ \E u \in UserIds, session \in PreferenceSessions, a \in FacadeAnswers, enc \in EncodeAnswers :
            ctx' = Serve(NewContext("getPreferences", PreferenceParams(u, "", ""), GarbageBody,
                                    session, [present |-> FALSE, CustomPermissionsSchemes |-> FALSE],
                                    AppWith("GetPreferencesForUser", a, "", NoErr), "", enc))

GetPreferencesByCategoryRequest ==
    /\ ctx = Idle
    /\ UNCHANGED pw
    /\ \E u \in UserIds, cat \in Categories, session \in PreferenceSessions,
          a \in FacadeAnswers, enc \in EncodeAnswers :
            ctx' = Serve(NewContext("getPreferencesByCategory", PreferenceParams(u, cat, ""), GarbageBody,
                                    session, [present |-> FALSE, CustomPermissionsSchemes |-> FALSE],
                                    AppWith("GetPreferenceByCategoryForUser", a, "", NoErr), "", enc))

GetPreferenceByCategoryAndNameRequest ==
    /\ ctx = Idle
    /\ UNCHANGED pw
    /\ \E u \in UserIds, cat \in Categories, name \in PreferenceNames, session \in PreferenceSessions,
          a \in FacadeAnswers, enc \in EncodeAnswers :
            ctx' = Serve(NewContext("getPreferenceByCategoryAndName", PreferenceParams(u, cat, name),
                                    GarbageBody, session,
                                    [present |-> FALSE, CustomPermissionsSchemes |-> FALSE],
                                    AppWith("GetPreferenceByCategoryAndNameForUser", a, "", NoErr), "", enc))

PreferenceBodies == {GarbageBody} \cup { PrefsBody(prefs) : prefs \in PrefBatches }

UpdatePreferencesRequest ==
    /\ ctx = Idle
    /\ UNCHANGED pw
    /\ \E u \in UserIds, body \in PreferenceBodies, session \in PreferenceSessions,
          a1 \in FacadeAnswers, a2 \in FacadeAnswers :
            ctx' = Serve(NewContext("updatePreferences", PreferenceParams(u, "", ""), body,
                                    session, [present |-> FALSE, CustomPermissionsSchemes |-> FALSE],
                                    AppWith("GetSinglePost", a1, "UpdatePreferences", a2), "", "ok"))

DeletePreferencesRequest ==
    /\ ctx = Idle
    /\ UNCHANGED pw
    /\ \E u \in UserIds, body \in PreferenceBodies, session \in PreferenceSessions, a \in FacadeAnswers :
            ctx' = Serve(NewContext("deletePreferences", PreferenceParams(u, "", ""), body,
                                    session, [present |-> FALSE, CustomPermissionsSchemes |-> FALSE],
                                    AppWith("DeletePreferences", a, "", NoErr), "", "ok"))

Next ==
    \/ CreateSchemeRequest
    \/ GetSchemeRequest
    \/ GetSchemesRequest
    \/ GetTeamsForSchemeRequest
    \/ GetChannelsForSchemeRequest
    \/ PatchSchemeRequest
    \/ DeleteSchemeRequest
    \/ GetPreferencesRequest
    \/ GetPreferencesByCategoryRequest
    \/ GetPreferenceByCategoryAndNameRequest
    \/ UpdatePreferencesRequest
    \/ DeletePreferencesRequest
    \/ Reply

Spec == Init /\ [][Next]_vars

(***************************************************************************)
(* Calls of the password checks                                            *)
(***************************************************************************)
CheckUserPasswordCall ==
    /\ pw = NoCall
    /\ UNCHANGED ctx
    /\ \E user \in Users, password \in Passwords, post \in IAMAnswers :
            pw' = [NoCall EXCEPT !.op = "CheckUserPassword", !.user = user, !.password = password,
                                 !.post = post,
                                 !.result = CheckUserPassword(user, password, post)]

IsPasswordValidCall ==
    /\ pw = NoCall
    /\ UNCHANGED ctx
    /\ \E password \in Passwords, config \in Configs :
            pw' = [NoCall EXCEPT !.op = "isPasswordValid", !.password = password, !.config = config,
                                 !.result = isPasswordValid(config, password)]

IsPasswordValidWithSettingsCall ==
    /\ pw = NoCall
    /\ UNCHANGED ctx
    /\ \E password \in Passwords, settings \in PasswordSettings :
            pw' = [NoCall EXCEPT !.op = "IsPasswordValidWithSettings", !.password = password,
                                 !.config.PasswordSettings = settings,
                                 !.result = IsPasswordValidWithSettings(password, settings)]

\* the call has returned to its caller
PasswordReturn ==
    /\ pw.op # "none"
    /\ pw' = NoCall
    /\ UNCHANGED ctx

NextUsers ==
    \/ CheckUserPasswordCall
    \/ IsPasswordValidCall
    \/ IsPasswordValidWithSettingsCall
    \/ PasswordReturn

SpecUsers == Init /\ [][NextUsers]_vars

(***************************************************************************)
(* Reading the history of the request that was served                      *)
(***************************************************************************)
\* a request was served and its handler returned (it did not panic)
Returned == ctx.handler # "none" /\ ~ctx.panicked

\* the entries of the history of c with event ev
EventsOf(c, ev) == SelectSeq(c.trace, LAMBDA e : e.ev = ev)

FacadeCalls(c) == EventsOf(c, "facade")

Occurs(ev) == \E i \in 1..Len(ctx.trace) : ctx.trace[i].ev = ev

\* events that evaluate a session permission
PermissionEvents == { "perm", "permUser", "permChannel" }

\* the license is absent or the feature flag is false
Unlicensed == ~ctx.License.present \/ ~ctx.License.CustomPermissionsSchemes

\* the request fails the validation its handler runs before MakeAuditRecord:
\* the required id is missing, or the body of createScheme / patchScheme does not parse
FailsLeadingValidation ==
    CASE ctx.handler = "createScheme" -> ~ctx.Body.ok
      [] ctx.handler = "patchScheme" -> ctx.Params.SchemeId = "" \/ ~ctx.Body.ok
      [] ctx.handler = "deleteScheme" -> ctx.Params.SchemeId = ""
      [] ctx.handler \in {"updatePreferences", "deletePreferences"} -> ctx.Params.UserId = ""
      [] OTHER -> FALSE

\* the request as it was received
Received(c) ==
    NewContext(c.handler, c.Params, c.Body, c.Session, c.License, c.App, c.storedScope, c.encode)

(***************************************************************************)
(* Claims                                                                  *)
(***************************************************************************)

\* C1 (as stated): every request handled by a mutating handler has emitted exactly
\* one audit record when the handler returns, on every exit path, validation
\* failures included.
C1_ExactlyOneAuditOnEveryExit ==
    (ctx.handler \in AuditedHandlers /\ Returned) => Len(ctx.audits) = 1

\* C1 (amended): a mutating handler emits at most one audit record; it emits
\* exactly one on every way out taken after MakeAuditRecord (success, license
\* failure, authorization failure, upstream error, unparsable preferences body,
\* panic) and none when the request fails the validation that precedes
\* MakeAuditRecord.
C1_OneAuditOnceRecordMade ==
    ctx.handler \in AuditedHandlers =>
        /\ Len(ctx.audits) = (IF FailsLeadingValidation THEN 0 ELSE 1)
        /\ Len(ctx.audits) = Len(EventsOf(ctx, "audit.make"))
        /\ ctx.deferred = 0

C1_Witness ==
    /\ ctx.handler = "updatePreferences"
    /\ ctx.Err.kind = "InvalidParameter"
    /\ ctx.Err.id = "preferences"
    /\ Len(ctx.audits) = 1

\* C2: a license-gated request that passed parameter validation on a deployment
\* without the license or with the feature flag off ends with 501 NotImplemented
\* whatever the session holds, and SessionHasPermissionTo is never evaluated.
C2_LicenseBeforePermission ==
    (ctx.handler \in LicenseGatedHandlers /\ ~FailsLeadingValidation /\ Unlicensed) =>
        /\ Returned
        /\ ctx.Err.kind = "NotImplemented"
        /\ ctx.Err.status = StatusNotImplemented
        /\ ~Occurs("perm")
        /\ \A i \in 1..Len(ctx.trace) : ctx.trace[i].ev \notin PermissionEvents

C2_Witness ==
    /\ ctx.handler = "patchScheme"
    /\ ctx.License.present /\ ~ctx.License.CustomPermissionsSchemes
    /\ ctx.Session.perms = Permissions
    /\ ctx.Err.status = StatusNotImplemented
    /\ Occurs("license")

\* C3: on an unlicensed deployment two runs of createScheme, patchScheme or
\* deleteScheme on the same request that differ only in the permissions of the
\* session end with the same error and issue the same facade calls.
C3_UnlicensedNoninterference ==
    (ctx.handler \in LicenseGatedHandlers /\ Unlicensed) =>
        \A perms \in SUBSET Permissions :
            LET other == Serve([Received(ctx) EXCEPT !.Session.perms = perms]) IN
            /\ other.Err = ctx.Err
            /\ FacadeCalls(other) = FacadeCalls(ctx)
            /\ other.w = ctx.w

C3_Witness ==
    /\ ctx.handler = "deleteScheme"
    /\ ~ctx.License.present
    /\ ctx.Params.SchemeId # ""
    /\ PermissionSysconsoleWriteUserManagementPermissions \notin ctx.Session.perms
    /\ ctx.Err.status = StatusNotImplemented

\* events that evaluate a gate: parameter validation, license, permission, scope of the loaded scheme
GateEvents == { "require", "parse", "validate", "license", "check" } \cup PermissionEvents

\* facade calls that load the resource a later check depends on
ResourceLoads == { "GetScheme", "GetSinglePost" }

\* the audit log of the request holds one record and it has status Fail
OneFailAudit == Len(ctx.audits) = 1 /\ ctx.audits[1].status = "fail"

\* C4 (as stated): a request that ends with PermissionDenied (403) has made no
\* facade call at all, and an audited handler has emitted exactly one Fail record.
C4_DeniedMakesNoFacadeCall ==
    ctx.Err.kind = "PermissionDenied" =>
        /\ FacadeCalls(ctx) = <<>>
        /\ ctx.handler \in AuditedHandlers => OneFailAudit

\* C4 (amended): a request that ends with PermissionDenied (403) has made no
\* mutating facade call and no facade call other than the resource load its
\* permission check needs (GetScheme in patchScheme, GetSinglePost in
\* updatePreferences); an audited handler has emitted exactly one Fail record.
C4_DeniedMakesNoMutatingCall ==
    ctx.Err.kind = "PermissionDenied" =>
        /\ ctx.Err.status = StatusForbidden
        /\ \A i \in 1..Len(ctx.trace) :
             ctx.trace[i].ev = "facade" =>
                /\ ctx.trace[i].arg \notin MutatingFacades
                /\ \/ ctx.handler = "patchScheme" /\ ctx.trace[i].arg = "GetScheme"
                   \/ ctx.handler = "updatePreferences" /\ ctx.trace[i].arg = "GetSinglePost"
        /\ ctx.saved = <<>>
        /\ ctx.handler \in AuditedHandlers => OneFailAudit

C4_Witness ==
    /\ ctx.handler = "patchScheme"
    /\ ctx.Err.kind = "PermissionDenied"
    /\ Len(FacadeCalls(ctx)) = 1
    /\ OneFailAudit

\* C5 (as stated): every facade call happens after all validation and
\* authorization checks of the request have passed; no gate is evaluated after a
\* facade call.
C5_FacadeAfterAllGates ==
    \A i \in 1..Len(ctx.trace) :
        ctx.trace[i].ev = "facade" =>
            /\ \A k \in 1..(i - 1) : ctx.trace[k].ev # "seterr"
            /\ \A j \in (i + 1)..Len(ctx.trace) : ctx.trace[j].ev \notin GateEvents

\* C5 (amended): every facade call is issued with the error slot empty, after
\* the Require checks, body parsing, scope validation and license check of its
\* handler, and, except GetScheme in patchScheme, after a permission check.
\* Calls other than the resource loads GetScheme and GetSinglePost are issued
\* after every gate; a resource load is followed only by permission or
\* scheme-scope checks and by further resource loads.
C5_FacadeAfterLeadingGates ==
    \A i \in 1..Len(ctx.trace) :
        ctx.trace[i].ev = "facade" =>
            /\ \A k \in 1..(i - 1) : ctx.trace[k].ev # "seterr"
            /\ \A j \in (i + 1)..Len(ctx.trace) :
                 ctx.trace[j].ev \notin {"require", "parse", "validate", "license", "permUser"}
            /\ ctx.trace[i].arg \notin ResourceLoads =>
                 \A j \in (i + 1)..Len(ctx.trace) : ctx.trace[j].ev \notin GateEvents
            /\ ~(ctx.handler = "patchScheme" /\ ctx.trace[i].arg = "GetScheme") =>
                 \E k \in 1..(i - 1) : ctx.trace[k].ev \in PermissionEvents
            /\ ctx.handler \in LicenseGatedHandlers =>
                 \E k \in 1..(i - 1) : ctx.trace[k].ev = "license"

C5_Witness ==
    /\ ctx.handler = "updatePreferences"
    /\ Len(EventsOf(ctx, "permChannel")) = 2
    /\ \E i \in 1..Len(ctx.trace) : ctx.trace[i] = [ev |-> "facade", arg |-> "UpdatePreferences"]

\* C6: once c.Err is set it stays: after the first assignment to the error slot
\* the handler makes no further assignment to it, no facade call and no
\* response write, and the request ends with that error.
C6_ErrorIsTerminal ==
    /\ \A i \in 1..Len(ctx.trace) :
         ctx.trace[i].ev = "seterr" =>
            /\ \A j \in (i + 1)..Len(ctx.trace) :
                 ctx.trace[j].ev \notin {"seterr", "facade", "write"}
            /\ ctx.Err.kind = ctx.trace[i].arg
            /\ ctx.Err # NoErr
    /\ ctx.Err # NoErr => Len(EventsOf(ctx, "seterr")) = 1

C6_Witness ==
    /\ ctx.handler = "getPreferencesByCategory"
    /\ ctx.Params.UserId = "" /\ ctx.Params.Category = ""
    /\ ctx.Err.kind = "InvalidParameter"
    /\ Len(EventsOf(ctx, "seterr")) = 1

\* the Require checks a handler declares, in the order of its chain
RequiredFields(c) ==
    CASE c.handler \in {"getScheme", "getTeamsForScheme", "getChannelsForScheme", "patchScheme", "deleteScheme"}
           -> << [field |-> "scheme_id", value |-> c.Params.SchemeId] >>
      [] c.handler \in {"getPreferences", "updatePreferences", "deletePreferences"}
           -> << [field |-> "user_id", value |-> c.Params.UserId] >>
      [] c.handler = "getPreferencesByCategory"
           -> << [field |-> "user_id", value |-> c.Params.UserId],
                 [field |-> "category", value |-> c.Params.Category] >>
      [] c.handler = "getPreferenceByCategoryAndName"
           -> << [field |-> "user_id", value |-> c.Params.UserId],
                 [field |-> "category", value |-> c.Params.Category],
                 [field |-> "preference_name", value |-> c.Params.PreferenceName] >>
      [] OTHER -> << >>

MissingFields(c) == { i \in 1..Len(RequiredFields(c)) : RequiredFields(c)[i].value = "" }

\* index of the first-declared check that fails
FirstMissing(c) == CHOOSE i \in MissingFields(c) : \A j \in MissingFields(c) : i <= j

\* C7: a request in which a required field is missing ends with InvalidParameter
\* (400) naming a missing field (the only one, when one is missing; the
\* first-declared one otherwise); no facade call is made, no permission check
\* is evaluated and nothing is written.
C7_MissingFieldIsInvalidParameter ==
    MissingFields(ctx) # {} =>
        /\ Returned
        /\ ctx.Err = NewAppError("InvalidParameter", RequiredFields(ctx)[FirstMissing(ctx)].field, StatusBadRequest)
        /\ FacadeCalls(ctx) = <<>>
        /\ \A i \in 1..Len(ctx.trace) : ctx.trace[i].ev \notin PermissionEvents
        /\ ctx.w = <<>>

C7_Witness ==
    /\ ctx.handler = "getPreferenceByCategoryAndName"
    /\ MissingFields(ctx) = {3}
    /\ ctx.Err.id = "preference_name"
    /\ ctx.Err.status = StatusBadRequest

\* C8: the Require chain evaluates its checks in declared order up to the first
\* one that fails; every later check is a no-op, so exactly one error is
\* reported, that of the first-declared failing check.
C8_FirstDeclaredCheckWins ==
    LET required == RequiredFields(ctx)
        evaluated == EventsOf(ctx, "require")
        last == IF MissingFields(ctx) = {} THEN Len(required) ELSE FirstMissing(ctx)
    IN
    /\ Len(evaluated) = last
    /\ \A i \in 1..last : evaluated[i].arg = required[i].field
    /\ MissingFields(ctx) # {} =>
         /\ ctx.trace[Len(ctx.trace)] = [ev |-> "seterr", arg |-> "InvalidParameter"]
         /\ ctx.trace[Len(ctx.trace) - 1] = [ev |-> "require", arg |-> required[last].field]
         /\ ctx.Err.id = required[last].field
    /\ (ctx.handler = "getPreferencesByCategory" /\ ctx.Params.UserId = "" /\ ctx.Params.Category = "")
         => ctx.Err.id = "user_id"

C8_Witness ==
    /\ ctx.handler = "getPreferenceByCategoryAndName"
    /\ MissingFields(ctx) = {2, 3}
    /\ ctx.Err.id = "category"
    /\ Len(EventsOf(ctx, "require")) = 2

\* C9 (as stated): whenever a facade call returns an error, the request ends
\* with that same error, id and status unmodified.
C9_FacadeErrorPassedThrough ==
    \A i \in 1..Len(ctx.answers) :
        ctx.answers[i].err \notin {NoErr, Panic} => ctx.Err = ctx.answers[i].err

\* C9 (amended): whenever a facade call other than GetSinglePost returns an
\* error, the request ends with that same error, id and status unmodified; an
\* error of GetSinglePost in updatePreferences is reported as InvalidParameter
\* (400) for preference.name.
C9_FacadeErrorPassedThroughExceptGetSinglePost ==
    \A i \in 1..Len(ctx.answers) :
        ctx.answers[i].err \notin {NoErr, Panic} =>
            /\ ctx.answers[i].name # "GetSinglePost" => ctx.Err = ctx.answers[i].err
            /\ ctx.answers[i].name = "GetSinglePost" =>
                 ctx.Err = NewAppError("InvalidParameter", "preference.name", StatusBadRequest)
            /\ i = Len(ctx.answers)

C9_Witness ==
    /\ ctx.handler = "patchScheme"
    /\ Len(ctx.answers) = 2
    /\ ctx.answers[2] = [name |-> "PatchScheme", err |-> ErrInternal]
    /\ ctx.Err = ErrInternal

\* C10 (as stated): no InvalidParameter check is evaluated, and no
\* InvalidParameter error raised, after a permission check has been evaluated.
C10_ValidationBeforePermission ==
    \A i \in 1..Len(ctx.trace) :
        ctx.trace[i].ev \in PermissionEvents =>
            \A j \in (i + 1)..Len(ctx.trace) :
                /\ ctx.trace[j].ev \notin {"require", "parse", "validate"}
                /\ ctx.trace[j] # [ev |-> "seterr", arg |-> "InvalidParameter"]

\* the session lacks the first permission the handler asks for
LacksPermission ==
    CASE ctx.handler = "getSchemes" ->
           PermissionSysconsoleReadUserManagementPermissions \notin ctx.Session.perms
      [] ctx.handler \in {"updatePreferences", "deletePreferences"} ->
           /\ ctx.Params.UserId # ctx.Session.UserId
           /\ PermissionEditOtherUsers \notin ctx.Session.perms
      [] OTHER -> FALSE

\* C10 (amended): the Require checks of every handler, and the body parsing of
\* createScheme and patchScheme, are evaluated before any permission check, so
\* a request failing them is answered 400 whatever the session holds.  The
\* scope check of getSchemes, the body parsing of updatePreferences and
\* deletePreferences and the preference.name check of updatePreferences are
\* evaluated after a permission check: a request that fails one of them and is
\* unauthorized is answered 403.
C10_RequireBeforePermission ==
    /\ \A i \in 1..Len(ctx.trace) :
         ctx.trace[i].ev \in PermissionEvents =>
            \A j \in (i + 1)..Len(ctx.trace) :
                /\ ctx.trace[j].ev # "require"
                /\ ctx.handler \in {"createScheme", "patchScheme"} => ctx.trace[j].ev # "parse"
    /\ (MissingFields(ctx) # {} \/ FailsLeadingValidation) =>
         /\ ctx.Err.kind = "InvalidParameter" /\ ctx.Err.status = StatusBadRequest
         /\ \A i \in 1..Len(ctx.trace) : ctx.trace[i].ev \notin PermissionEvents
    /\ (ctx.handler = "getSchemes" /\ LacksPermission) =>
         ctx.Err.status = StatusForbidden /\ ~Occurs("validate")
    /\ (ctx.handler \in {"updatePreferences", "deletePreferences"} /\ ctx.Params.UserId # "" /\ LacksPermission) =>
         ctx.Err.status = StatusForbidden /\ ~Occurs("parse")
    /\ \A j \in 1..Len(ctx.trace) :
         ctx.trace[j].ev \in {"validate", "parse"} /\ ctx.handler \notin {"createScheme", "patchScheme"} =>
            \E i \in 1..(j - 1) : ctx.trace[i].ev \in PermissionEvents

C10_Witness ==
    /\ ctx.handler = "getSchemes"
    /\ ctx.Params.Scope = "bogus"
    /\ LacksPermission
    /\ ctx.Err.kind = "PermissionDenied"
    /\ ctx.Err.status = StatusForbidden

\* the entries of the batch that flag a post of a channel the session cannot read
UnreadableEntries(c) ==
    { i \in 1..Len(c.Body.prefs) :
        /\ c.Body.prefs[i].Category = PreferenceCategoryFlaggedPost
        /\ PostChannel(c.Body.prefs[i].Name) # ""
        /\ PostChannel(c.Body.prefs[i].Name) \notin c.Session.channels }

\* the entries of the batch that flag a post the store does not have
UnknownPostEntries(c) ==
    { i \in 1..Len(c.Body.prefs) :
        /\ c.Body.prefs[i].Category = PreferenceCategoryFlaggedPost
        /\ PostChannel(c.Body.prefs[i].Name) = "" }

FlaggedEntries(c) ==
    { i \in 1..Len(c.Body.prefs) : c.Body.prefs[i].Category = PreferenceCategoryFlaggedPost }

\* updatePreferences reaches its loop over the batch, and GetSinglePost answers from the store
ReachesBatch ==
    /\ ctx.handler = "updatePreferences"
    /\ ctx.Params.UserId # ""
    /\ SessionHasPermissionToUser(ctx.Session, ctx.Params.UserId)
    /\ ctx.Body.ok
    /\ ctx.App["GetSinglePost"] = NoErr

UpdatePreferencesCalls == { i \in 1..Len(ctx.trace) : ctx.trace[i] = [ev |-> "facade", arg |-> "UpdatePreferences"] }

FacadeNames(c) == [i \in 1..Len(FacadeCalls(c)) |-> FacadeCalls(c)[i].arg]

\* getTeamsForScheme / getChannelsForScheme with a valid id and an authorized
\* session, for which GetScheme has returned the scheme
SchemeLoadedFor(handler, permission) ==
    /\ ctx.handler = handler
    /\ ctx.Params.SchemeId # ""
    /\ permission \in ctx.Session.perms
    /\ ctx.App["GetScheme"] = NoErr

\* the request ended with the scope error id, raised right after GetScheme
\* returned, and no second facade call was made
EndsWithScopeError(id) ==
    /\ Returned
    /\ ctx.Err.id = id
    /\ ctx.Err.status = StatusBadRequest
    /\ FacadeNames(ctx) = <<"GetScheme">>
    /\ ctx.w = <<>>
    /\ \E i \in 1..Len(ctx.trace) :
         /\ ctx.trace[i] = [ev |-> "facade", arg |-> "GetScheme"]
         /\ ctx.trace[i + 1] = [ev |-> "check", arg |-> "scheme.Scope"]
         /\ ctx.trace[i + 2].ev = "seterr"
         /\ Len(ctx.trace) = i + 2

\* C12: getTeamsForScheme on a scheme that is not team-scoped, and
\* getChannelsForScheme on a scheme that is not channel-scoped, end with 400
\* after GetScheme returned the scheme and without the secondary facade call;
\* with the matching scope and a secondary call that succeeds, the secondary
\* call is issued and the request succeeds.
C12_ScopeMismatchIsBadRequest ==
    /\ SchemeLoadedFor("getTeamsForScheme", PermissionSysconsoleReadUserManagementTeams) =>
         IF ctx.storedScope # SchemeScopeTeam
         THEN EndsWithScopeError("api.scheme.get_teams_for_scheme.scope.error")
         ELSE /\ FacadeNames(ctx) = <<"GetScheme", "GetTeamsForSchemePage">>
              /\ ctx.App["GetTeamsForSchemePage"] = NoErr =>
                   ctx.Err = NoErr /\ ctx.w = <<[op |-> "Write", val |-> "teams"]>>
    /\ SchemeLoadedFor("getChannelsForScheme", PermissionSysconsoleReadUserManagementChannels) =>
         IF ctx.storedScope # SchemeScopeChannel
         THEN EndsWithScopeError("api.scheme.get_channels_for_scheme.scope.error")
         ELSE /\ FacadeNames(ctx) = <<"GetScheme", "GetChannelsForSchemePage">>
              /\ ctx.App["GetChannelsForSchemePage"] = NoErr =>
                   /\ ctx.Err = NoErr
                   /\ ctx.encode # "panic" => ctx.w = <<[op |-> "Encode", val |-> "channels"]>>

C12_Witness ==
    /\ SchemeLoadedFor("getChannelsForScheme", PermissionSysconsoleReadUserManagementChannels)
    /\ ctx.storedScope = SchemeScopeTeam
    /\ EndsWithScopeError("api.scheme.get_channels_for_scheme.scope.error")

\* createScheme went through: CreateScheme was called and returned the scheme
CreateSchemeSucceeded ==
    /\ ctx.handler = "createScheme"
    /\ ctx.Err = NoErr
    /\ ctx.answers = <<[name |-> "CreateScheme", err |-> NoErr]>>

\* positions in the history where metadata was attached under key
MetaEvents(key) == { i \in 1..Len(ctx.trace) : ctx.trace[i] = [ev |-> "audit.meta", arg |-> key] }

AuditsWithStatus(status) == SelectSeq(ctx.audits, LAMBDA rec : rec.status = status)

\* C14: createScheme with a parsable body on a deployment without the license
\* (or with the feature flag off) ends with 501, emits no Success record and
\* exactly one Fail record, which carries the submitted scheme as metadata;
\* CreateScheme is never called.
C14_UnlicensedCreateAuditsPayload ==
    (ctx.handler = "createScheme" /\ ctx.Body.ok /\ Unlicensed) =>
        /\ Returned
        /\ ctx.Err.status = StatusNotImplemented
        /\ ctx.Err.id = "api.scheme.create_scheme.license.error"
        /\ AuditsWithStatus("success") = <<>>
        /\ Len(AuditsWithStatus("fail")) = 1
        /\ ctx.audits = << [event |-> "createScheme", status |-> "fail",
                            meta |-> << <<"scheme", ctx.Body.scheme>> >>] >>
        /\ FacadeCalls(ctx) = <<>>
        /\ ctx.w = <<>>

C14_Witness ==
    /\ ctx.handler = "createScheme"
    /\ ctx.Body = SchemeBody
    /\ ~ctx.License.present
    /\ ctx.Session.perms = Permissions
    /\ ctx.Err.status = StatusNotImplemented
    /\ Len(ctx.audits) = 1

\* C15: once a handler has created its audit record, the record is emitted
\* exactly once however the handler is left, by return or by a panic in a
\* facade call or in the response encoding: the emit is deferred right where
\* the record is created and is the last thing the request does.
C15_AuditEmittedOnEveryWayOut ==
    \A i \in 1..Len(ctx.trace) :
        ctx.trace[i].ev = "audit.make" =>
            /\ ctx.trace[i + 1].ev = "audit.defer"
            /\ Len(EventsOf(ctx, "audit.emit")) = 1
            /\ ctx.trace[Len(ctx.trace)].ev = "audit.emit"
            /\ ctx.audits = <<ctx.auditRec>>
            /\ ctx.auditRec.event = ctx.handler
            /\ ctx.deferred = 0

C15_Witness ==
    /\ ctx.handler = "deletePreferences"
    /\ ctx.panicked
    /\ ctx.answers = <<[name |-> "DeletePreferences", err |-> Panic]>>
    /\ Len(ctx.audits) = 1

\* the same during response encoding
C15_EncodeWitness ==
    /\ ctx.handler = "patchScheme"
    /\ ctx.panicked
    /\ ctx.encode = "panic"
    /\ Len(ctx.audits) = 1
    /\ ctx.audits[1].status = "success"

ReadHandlers ==
    { "getScheme", "getSchemes", "getTeamsForScheme", "getChannelsForScheme",
      "getPreferences", "getPreferencesByCategory", "getPreferenceByCategoryAndName" }

AuditEvents == { "audit.make", "audit.defer", "audit.meta", "audit.success", "audit.emit" }

\* C16: the read handlers never create or emit an audit record, on any path,
\* and never call a mutating facade operation.
C16_ReadHandlersDoNotAudit ==
    ctx.handler \in ReadHandlers =>
        /\ ctx.audits = <<>>
        /\ ctx.auditRec = NoAuditRec
        /\ ctx.deferred = 0
        /\ ctx.legacy = 0
        /\ ctx.saved = <<>>
        /\ \A i \in 1..Len(ctx.trace) :
             /\ ctx.trace[i].ev \notin AuditEvents
             /\ ctx.trace[i].ev = "facade" => ctx.trace[i].arg \notin MutatingFacades

C16_Witness ==
    /\ ctx.handler = "getPreferences"
    /\ ctx.Err = NoErr
    /\ FacadeNames(ctx) = <<"GetPreferencesForUser">>
    /\ ctx.w # <<>>
    /\ ctx.audits = <<>>

\* the mutating facade operation of an audited handler
MutatingCallOf(handler) ==
    CASE handler = "createScheme" -> "CreateScheme"
      [] handler = "patchScheme" -> "PatchScheme"
      [] handler = "deleteScheme" -> "DeleteScheme"
      [] handler = "updatePreferences" -> "UpdatePreferences"
      [] handler = "deletePreferences" -> "DeletePreferences"
      [] OTHER -> ""

\* the mutating call of the handler was made and returned without error
MutatingCallSucceeded ==
    \E i \in 1..Len(ctx.answers) :
        ctx.answers[i] = [name |-> MutatingCallOf(ctx.handler), err |-> NoErr]

\* C17: the audit record an audited handler emits has status Success exactly
\* when the handler ends with the error slot empty and its mutating facade
\* call returned without error; whenever a RequestError was set the record has
\* status Fail, whatever the kind of the error.
C17_SuccessIffMutationSucceeded ==
    (ctx.handler \in AuditedHandlers /\ ctx.audits # <<>>) =>
        /\ ctx.audits[1].status \in {"success", "fail"}
        /\ ctx.audits[1].status = "success" <=> (ctx.Err = NoErr /\ MutatingCallSucceeded)
        /\ ctx.Err # NoErr => ctx.audits[1].status = "fail"
        /\ Occurs("seterr") => ctx.audits[1].status = "fail"

C17_Witness ==
    /\ ctx.handler = "updatePreferences"
    /\ ctx.Err = NoErr
    /\ MutatingCallSucceeded
    /\ Len(ctx.audits) = 1
    /\ ctx.audits[1].status = "success"

\* a failure audited with the generic Fail status
C17_FailWitness ==
    /\ ctx.handler = "patchScheme"
    /\ ctx.Err = ErrNotFound
    /\ ctx.audits[1].status = "fail"

\* the writes that send a body: Encode, w.Write, ReturnStatusOK
BodyWrites(c) == SelectSeq(c.w, LAMBDA x : x.op # "WriteHeader")

\* the status line of the response: the one WriteHeader set, else 200 with the first write
ResponseStatus(c) ==
    IF c.w[1].op = "WriteHeader" THEN c.w[1].val ELSE ToString(StatusOK)

\* C18: at return, writing a response and setting c.Err exclude each other and
\* one of them happened: with c.Err set nothing was written; with c.Err empty
\* one response was written, with status 201 for createScheme and 200 for the
\* other operations.  An encoding failure is logged and does not set c.Err.
C18_ResponseXorError ==
    Returned =>
        /\ ctx.Err # NoErr => ctx.w = <<>>
        /\ ctx.Err = NoErr =>
             /\ Len(BodyWrites(ctx)) = 1
             /\ Len(ctx.w) - Len(BodyWrites(ctx)) = (IF ctx.handler = "createScheme" THEN 1 ELSE 0)
             /\ ResponseStatus(ctx) =
                  (IF ctx.handler = "createScheme" THEN ToString(StatusCreated) ELSE ToString(StatusOK))
        /\ ctx.warnings > 0 =>
             /\ ctx.encode = "error"
             /\ ctx.Err = NoErr
             /\ ctx.warnings = 1
        /\ (ctx.encode = "error" /\ ctx.w # <<>>) => ctx.warnings = 1

C18_Witness ==
    /\ ctx.handler = "createScheme"
    /\ Returned
    /\ ctx.encode = "error"
    /\ ctx.Err = NoErr
    /\ ctx.warnings = 1
    /\ ctx.w = <<[op |-> "WriteHeader", val |-> "201"], [op |-> "Encode", val |-> "scheme"]>>

(***************************************************************************)
(* Password checks of package users                                        *)
(***************************************************************************)
StoredHashes == { u.Password : u \in Users }

\* C19: CheckUserPassword returns nil only if the POST to the IAM endpoint
\* completed without transport error and answered with status 200; a
\* transport error or any other status yields the invalid-password error;
\* and the result is the same whatever password hash is stored for the user.
C19_IAMFailClosed ==
    pw.op = "CheckUserPassword" =>
        /\ pw.result = NilError <=> (~pw.post.err /\ pw.post.StatusCode = 200)
        /\ pw.result # NilError => pw.result = NewErrInvalidPassword("")
        /\ \A hash \in StoredHashes :
               CheckUserPassword([pw.user EXCEPT !.Password = hash], pw.password, pw.post) = pw.result

\* the IAM endpoint answered, with a status other than 200, for a user with a
\* stored hash, and the password was rejected
C19_Witness ==
    /\ pw.op = "CheckUserPassword"
    /\ ~pw.post.err
    /\ pw.post.StatusCode = 204
    /\ pw.user.Password # ""
    /\ pw.result = NewErrInvalidPassword("")

\* the IAM endpoint answered 200 and the password was accepted
C19_AcceptWitness ==
    /\ pw.op = "CheckUserPassword"
    /\ pw.post = [err |-> FALSE, StatusCode |-> 200]
    /\ pw.result = NilError

\* the character classes of the password policy, in the order of the checks
PolicyClasses ==
    << [name |-> "lowercase", chars |-> LowercaseLetters],
       [name |-> "uppercase", chars |-> UppercaseLetters],
       [name |-> "number", chars |-> NUMBERS],
       [name |-> "symbol", chars |-> SYMBOLS] >>

ClassEnabled(settings, name) ==
    CASE name = "lowercase" -> settings.Lowercase
      [] name = "uppercase" -> settings.Uppercase
      [] name = "number" -> settings.Number
      [] name = "symbol" -> settings.Symbol

RECURSIVE EnabledSuffix(_, _)
EnabledSuffix(settings, i) ==
    IF i > Len(PolicyClasses) THEN ""
    ELSE (IF ClassEnabled(settings, PolicyClasses[i].name) THEN "_" \o PolicyClasses[i].name ELSE "")
            \o EnabledSuffix(settings, i + 1)

LengthOutOfRange(password, settings) ==
    password.len < settings.MinimumLength \/ password.len > PasswordMaximumLength

MissingClasses(password, settings) ==
    { i \in 1..Len(PolicyClasses) :
        /\ ClassEnabled(settings, PolicyClasses[i].name)
        /\ \A ch \in PolicyClasses[i].chars : ch \notin password.chars }

\* C20: IsPasswordValidWithSettings returns an error exactly when the length
\* is below MinimumLength or above the maximum, or some enabled class has no
\* character in the password; the error id names every enabled class in the
\* order lowercase, uppercase, number, symbol, whichever requirement failed;
\* and isPasswordValid accepts every password in developer mode.
C20_PasswordPolicy ==
    /\ pw.op = "IsPasswordValidWithSettings" =>
           LET settings == pw.config.PasswordSettings IN
           /\ pw.result.isErr <=>
                  (LengthOutOfRange(pw.password, settings) \/ MissingClasses(pw.password, settings) # {})
           /\ pw.result.isErr =>
                  pw.result.id = "model.user.is_valid.pwd" \o EnabledSuffix(settings, 1) \o ".app_error"
           /\ ~pw.result.isErr => pw.result = NilError
    /\ (pw.op = "isPasswordValid" /\ pw.config.EnableDeveloper) => pw.result = NilError

\* lowercase and symbol are required, the password is long enough and has a
\* lowercase letter but no symbol: the error id names both classes
C20_Witness ==
    /\ pw.op = "IsPasswordValidWithSettings"
    /\ pw.config.PasswordSettings.Lowercase
    /\ pw.config.PasswordSettings.Symbol
    /\ ~LengthOutOfRange(pw.password, pw.config.PasswordSettings)
    /\ MissingClasses(pw.password, pw.config.PasswordSettings) = {4}
    /\ pw.result.isErr

\* developer mode accepts a password the settings would reject
C20_DeveloperWitness ==
    /\ pw.op = "isPasswordValid"
    /\ pw.config.EnableDeveloper
    /\ IsPasswordValidWithSettings(pw.password, pw.config.PasswordSettings).isErr
    /\ pw.result = NilError

====
